---- MODULE Spec2Model ----
(***************************************************************************)
(* Model of aws-config's profile region provider                           *)
(* (aws/rust-runtime/aws-config/src/profile/region.rs):                    *)
(*   ProfileFileRegionProvider::region      load, then resolve             *)
(*   resolve_profile_chain_for_region       the source_profile chain walk  *)
(* Each frame is one call; the walk advances one loop iteration per step.  *)
(***************************************************************************)
EXTENDS Integers, Sequences, FiniteSets, TLC

\* ------------------------------------------------------------------ bounds
MaxProfiles == 2

\* ---------------------------------------------------------------- universe
NameOf == <<"default", "base", "other", "extra", "spare", "sixth">>

ProfileNames == {NameOf[i] : i \in 1..MaxProfiles}

\* The names a caller or a source_profile may use: "doesnotexist" names no profile.
AllNames == ProfileNames \cup {"doesnotexist"}

RegionValues == {"us-east-1", "us-west-2"}

Threads == {"t1", "t2"}

\* ------------------------------------------------------------ Option<T>
None == <<>>

Some(v) == <<v>>

Option(S) == {None} \cup {Some(v) : v \in S}

UnwrapOr(opt, dflt) == IF opt = None THEN dflt ELSE opt[1]

\* Region::new(region.to_owned()): the Region newtype around the string.
RegionNew(value) == [region |-> value]

\* -------------------------------------------------- Profile / ProfileSet
Profiles(names) ==
    [region : Option(RegionValues), source_profile : Option(names)]

\* The sets whose profiles are named in `present`; source_profile and the
\* selected profile range over `names`.
ProfileSets(present, names) ==
    UNION { [profiles : [S -> Profiles(names)], selected_profile : names]
            : S \in SUBSET present }

ProfileGet(profile, key) == profile[key]

IsEmpty(ps) == DOMAIN ps.profiles = {}

GetProfile(ps, name) ==
    IF name \in DOMAIN ps.profiles THEN Some(ps.profiles[name]) ELSE None

SelectedProfileOf(ps) == ps.selected_profile

\* parser::load: Err on a parse failure, Ok(profile_set) otherwise.
Err == <<"Err">>

Ok(v) == <<"Ok", v>>

LoadOutcomes(present, names) ==
    {Err} \cup {Ok(ps) : ps \in ProfileSets(present, names)}

Load(fs) == fs

\* ------------------------------------------------------------------ state
VARIABLES
    provider,          \* ProfileFileRegionProvider: fs/env and profile_override
    profile_set,       \* Option<ProfileSet>: the set the resolver calls borrow
    frame,             \* per call: position, arguments, locals, return value
    visited_profiles   \* the visited_profiles vector of each call

vars == <<provider, profile_set, frame, visited_profiles>>

IdleFrame ==
    [pc |-> "idle", profile_override |-> None, selected_profile |-> "",
     result |-> None, iters |-> 0, lookups |-> 0, calls |-> 0, arm |-> "none"]

\* let mut visited_profiles = vec![]: a local of the call, one vector per call.
VisitedSlotStatic(c) == "t1"

VisitedSlot(c) == c

Contains(visited, name) == \E i \in 1..Len(visited) : visited[i] = name

\* ----------------------------------------- resolve_profile_chain_for_region
Return(f, value, arm) ==
    [f EXCEPT !.pc = "done", !.result = value, !.arm = arm]

\* if profile_set.is_empty() { return None; }
EmptyGuardOmitted(ps) == FALSE

EmptyGuard(ps) == IsEmpty(ps)

\* profile_override.unwrap_or_else(|| profile_set.selected_profile())
StartingProfileIgnoresOverride(ps, profile_override) == SelectedProfileOf(ps)

StartingProfile(ps, profile_override) ==
    UnwrapOr(profile_override, SelectedProfileOf(ps))

\* Function entry up to the loop: the is_empty guard and the locals.
ResolveEntry(f, ps, profile_override) ==
    LET called == [f EXCEPT !.profile_override = profile_override,
                            !.calls = @ + 1]
    IN  IF EmptyGuard(ps)
        THEN Return(called, None, "empty")
        ELSE [called EXCEPT
                !.pc = "loop",
                !.selected_profile = StartingProfile(ps, profile_override),
                !.arm = "start"]

\* profile_set.get_profile(selected_profile)?
LookUpOrSelected(ps, selected_profile) ==
    IF GetProfile(ps, selected_profile) = None
    THEN GetProfile(ps, SelectedProfileOf(ps))
    ELSE GetProfile(ps, selected_profile)

LookUp(ps, selected_profile) == GetProfile(ps, selected_profile)

\* if visited_profiles.contains(&selected_profile)
InLoopUnchecked(visited, selected_profile) == FALSE

InLoopLastOnly(visited, selected_profile) ==
    Len(visited) > 0 /\ visited[Len(visited)] = selected_profile

InLoopAfterPush(visited, selected_profile) ==
    Contains(Append(visited, selected_profile), selected_profile)

InLoop(visited, selected_profile) == Contains(visited, selected_profile)

\* the guard of the second match arm: source_profile == selected_profile
SelfReferentialInverted(source_profile, selected_profile) ==
    source_profile # selected_profile

SelfReferential(source_profile, selected_profile) ==
    source_profile = selected_profile

\* match (selected_profile_region, source_profile): the arm taken.
MatchArmSourceFirst(selected_profile_region, source_profile, selected_profile) ==
    IF source_profile # None /\ source_profile[1] # selected_profile
    THEN "follow"
    ELSE IF selected_profile_region # None THEN "region"
    ELSE IF source_profile # None THEN "self"
    ELSE "nosource"

MatchArm(selected_profile_region, source_profile, selected_profile) ==
    IF selected_profile_region # None THEN "region"
    ELSE IF source_profile # None
            /\ SelfReferential(source_profile[1], selected_profile) THEN "self"
    ELSE IF source_profile = None THEN "nosource"
    ELSE "follow"

\* The same match without its second arm (the self-reference fast path).
MatchArmNoFastPath(selected_profile_region, source_profile, selected_profile) ==
    IF selected_profile_region # None THEN "region"
    ELSE IF source_profile = None THEN "nosource"
    ELSE "follow"

\* One iteration of the loop: <<frame, visited_profiles>> after it.
\* fast_path = TRUE is the code; FALSE drops the second match arm.
LoopIterationOpt(fast_path, ps, f, visited) ==
    LET entered == [f EXCEPT !.iters = @ + 1, !.lookups = @ + 1]
        profile == LookUp(ps, f.selected_profile)
    IN  IF profile = None
        THEN <<Return(entered, None, "missing"), visited>>
        ELSE IF InLoop(visited, f.selected_profile)
        THEN <<Return(entered, None, "cycle"), visited>>
        ELSE
          LET pushed == Append(visited, f.selected_profile)
              region == ProfileGet(profile[1], "region")
              selected_profile_region ==
                  IF region = None THEN None ELSE Some(RegionNew(region[1]))
              source_profile == ProfileGet(profile[1], "source_profile")
              arm == IF fast_path
                     THEN MatchArm(selected_profile_region, source_profile,
                                   f.selected_profile)
                     ELSE MatchArmNoFastPath(selected_profile_region,
                                             source_profile, f.selected_profile)
          IN  CASE arm = "region" ->
                     <<Return(entered, selected_profile_region, "region"), pushed>>
                [] arm = "self" -> <<Return(entered, None, "self"), pushed>>
                [] arm = "nosource" -> <<Return(entered, None, "nosource"), pushed>>
                [] arm = "follow" ->
                     <<[entered EXCEPT !.selected_profile = source_profile[1],
                                       !.arm = "follow"], pushed>>

LoopIteration(ps, f, visited) == LoopIterationOpt(TRUE, ps, f, visited)

\* The whole function as its caller sees it: the frame at return.
RECURSIVE RunLoop(_, _, _, _)
RunLoop(fast_path, ps, f, visited) ==
    IF f.pc # "loop" THEN f
    ELSE LET next == LoopIterationOpt(fast_path, ps, f, visited)
         IN  RunLoop(fast_path, ps, next[1], next[2])

ResolveAlone(ps, profile_override) ==
    RunLoop(TRUE, ps, ResolveEntry(IdleFrame, ps, profile_override), <<>>)

ResolveNoFastPath(ps, profile_override) ==
    RunLoop(FALSE, ps, ResolveEntry(IdleFrame, ps, profile_override), <<>>)

\* -------------------------------------------------------------- actions
\* self.profile_override.as_deref()
OverrideArgDropped(p) == None

OverrideArg(p) == p.profile_override

\* ProfileFileRegionProvider::region, up to the resolver's loop.
ProviderRegion(c) ==
    /\ frame[c].pc = "idle"
    /\ LET loaded == Load(provider.fs)
       IN  IF loaded = Err
           THEN /\ frame' = [frame EXCEPT ![c] = Return(@, None, "loaderr")]
                /\ UNCHANGED <<profile_set, visited_profiles>>
           ELSE /\ profile_set' = Some(loaded[2])
                /\ frame' = [frame EXCEPT ![c] =
                       ResolveEntry(@, loaded[2], OverrideArg(provider))]
                /\ visited_profiles' =
                       IF EmptyGuard(loaded[2]) THEN visited_profiles
                       ELSE [visited_profiles EXCEPT ![VisitedSlot(c)] = <<>>]
    /\ UNCHANGED provider

\* A direct call of resolve_profile_chain_for_region on the shared set.
Resolve(c, profile_override) ==
    /\ frame[c].pc = "idle"
    /\ profile_set # None
    /\ frame' = [frame EXCEPT ![c] =
                    ResolveEntry(@, profile_set[1], profile_override)]
    /\ visited_profiles' =
           IF EmptyGuard(profile_set[1]) THEN visited_profiles
           ELSE [visited_profiles EXCEPT ![VisitedSlot(c)] = <<>>]
    /\ UNCHANGED <<provider, profile_set>>

\* One iteration of the loop of call c.
Loop(c) ==
    /\ frame[c].pc = "loop"
    /\ LET next == LoopIteration(profile_set[1], frame[c],
                                 visited_profiles[VisitedSlot(c)])
       IN  /\ frame' = [frame EXCEPT ![c] = next[1]]
           /\ visited_profiles' =
                  [visited_profiles EXCEPT ![VisitedSlot(c)] = next[2]]
    /\ UNCHANGED <<provider, profile_set>>

\* ------------------------------------------------ the provider, one call
Init ==
    /\ provider \in [fs : LoadOutcomes(ProfileNames, AllNames),
                     profile_override : Option(AllNames)]
    /\ profile_set = None
    /\ frame = [c \in Threads |-> IdleFrame]
    /\ visited_profiles = [c \in Threads |-> <<>>]

Next ==
    \/ ProviderRegion("t1")
    \/ Loop("t1")

Spec == Init /\ [][Next]_vars

\* The thread that made the call keeps running it.
LiveSpec == Init /\ [][Next]_vars /\ WF_vars(Next)

\* ------------------------- concurrent resolver calls on one ProfileSet
\* The set has been loaded once; the calls borrow it.
InitConc ==
    /\ profile_set \in {Some(ps) : ps \in ProfileSets(ProfileNames, ProfileNames)}
    /\ provider = [fs |-> Ok(profile_set[1]), profile_override |-> None]
    /\ frame = [c \in Threads |-> IdleFrame]
    /\ visited_profiles = [c \in Threads |-> <<>>]

NextConc ==
    \E c \in Threads :
        \/ \E profile_override \in Option(ProfileNames) : Resolve(c, profile_override)
        \/ Loop(c)

SpecConc == InitConc /\ [][NextConc]_vars

\* ------------------------------------------------ vocabulary of the claims
\* The resolver has been called in frame c (the load succeeded).
Called(c) == profile_set # None /\ frame[c].calls = 1

Returned(c) == Called(c) /\ frame[c].pc = "done"

NumProfiles(ps) == Cardinality(DOMAIN ps.profiles)

Exists(ps, name) == name \in DOMAIN ps.profiles

Defines(ps, name) == Exists(ps, name) /\ ps.profiles[name].region # None

ValueAt(ps, name) == Some(RegionNew(ps.profiles[name].region[1]))

Link(ps, name) ==
    IF Exists(ps, name) THEN ps.profiles[name].source_profile ELSE None

\* The name the call starts from: the override if present, else the selection.
StartOf(c) ==
    IF frame[c].profile_override # None
    THEN frame[c].profile_override[1]
    ELSE profile_set[1].selected_profile

\* <<p_0, ..., p_n>>: p_i is the name reached from the starting name by i
\* source_profile links (None once a link is missing); chain[i + 1] is p_i.
RECURSIVE ChainFrom(_, _, _)
ChainFrom(ps, current, n) ==
    IF n = 0 THEN <<current>>
    ELSE <<current>> \o
         ChainFrom(ps, IF current = None THEN None ELSE Link(ps, current[1]), n - 1)

ChainOf(ps, start) == ChainFrom(ps, Some(start), NumProfiles(ps))

\* p_0 .. p_(k-1) exist, are pairwise distinct and do not define the key.
PrefixWithoutKey(ps, chain, k) ==
    /\ k + 1 <= Len(chain)
    /\ chain[k + 1] # None
    /\ \A i \in 1..k : Exists(ps, chain[i][1]) /\ ~Defines(ps, chain[i][1])
    /\ \A i, j \in 1..k : i < j => chain[i] # chain[j]

\* ... and p_k exists and defines the key.
FirstDefinitionAt(ps, chain, k) ==
    /\ PrefixWithoutKey(ps, chain, k)
    /\ Defines(ps, chain[k + 1][1])

\* ... and p_k names no profile.
DanglingAt(ps, chain, k) ==
    /\ PrefixWithoutKey(ps, chain, k)
    /\ ~Exists(ps, chain[k + 1][1])

\* ... and p_k is one of p_0 .. p_(k-1): the chain closes a cycle at step k.
CycleAt(ps, chain, k) ==
    /\ k >= 1
    /\ PrefixWithoutKey(ps, chain, k)
    /\ \E i \in 1..k : chain[i] = chain[k + 1]

EmptyProfileSet(selected) ==
    [profiles |-> [n \in {} |-> None], selected_profile |-> selected]

\* ------------------------------------------------------------------ C1
\* A call never begins more than N+1 iterations for N profiles: a call still
\* in the loop has finished at most N iterations and can take the next.
IterationBound ==
    \A c \in Threads :
        Called(c) =>
            /\ frame[c].iters <= NumProfiles(profile_set[1]) + 1
            /\ frame[c].lookups = frame[c].iters
            /\ frame[c].pc \in {"loop", "done"}
            /\ frame[c].pc = "loop" =>
                  /\ frame[c].iters <= NumProfiles(profile_set[1])
                  /\ ENABLED Loop(c)

\* C1: every call returns, and it returns within N+1 iterations of the loop
\* for a ProfileSet of N profiles, whatever the links and the override.
C1_TerminatesWithinBound ==
    /\ []IterationBound
    /\ <>(frame["t1"].pc = "done")

C1_Witness ==
    /\ Returned("t1")
    /\ NumProfiles(profile_set[1]) >= 2
    /\ frame["t1"].iters = NumProfiles(profile_set[1]) + 1

\* ------------------------------------------------------------------ C2
\* C2: a returned call yields the value of the first profile along the chain
\* that defines the key, when the profiles before it exist, are distinct and
\* lack the key; in every other case it yields None.
C2_ChainResolution ==
    \A c \in Threads :
        Returned(c) =>
            LET ps == profile_set[1]
                chain == ChainOf(ps, StartOf(c))
                ks == {k \in 0..NumProfiles(ps) : FirstDefinitionAt(ps, chain, k)}
            IN  IF ks = {}
                THEN frame[c].result = None
                ELSE \A k \in ks : frame[c].result = ValueAt(ps, chain[k + 1][1])

C2_Witness ==
    /\ Returned("t1")
    /\ LET ps == profile_set[1]
           chain == ChainOf(ps, StartOf("t1"))
       IN  /\ FirstDefinitionAt(ps, chain, 1)
           /\ Link(ps, chain[2][1]) # None
           /\ frame["t1"].result = ValueAt(ps, chain[2][1])

C4_MissingProfile ==
    \A c \in Threads :
        Returned(c) =>
            LET ps == profile_set[1]
                chain == ChainOf(ps, StartOf(c))
            IN  \A k \in 0..NumProfiles(ps) :
                    DanglingAt(ps, chain, k) =>
                        /\ frame[c].result = None
                        /\ ~IsEmpty(ps) =>
                              /\ frame[c].arm = "missing"
                              /\ frame[c].iters = k + 1

C4_Witness ==
    /\ Returned("t1")
    /\ frame["t1"].profile_override # None
    /\ ~Exists(profile_set[1], frame["t1"].profile_override[1])
    /\ Defines(profile_set[1], profile_set[1].selected_profile)
    /\ frame["t1"].result = None

\* ------------------------------------------------------------------ C5
\* C5: when the chain, through profiles that all lack the key, comes back at
\* step k to a profile already on it, the call returns None within k+1
\* iterations.
C5_CycleTolerance ==
    \A c \in Threads :
        Called(c) =>
            LET ps == profile_set[1]
                chain == ChainOf(ps, StartOf(c))
            IN  \A k \in 1..NumProfiles(ps) :
                    CycleAt(ps, chain, k) =>
                        /\ frame[c].iters <= k + 1
                        /\ frame[c].pc = "loop" => frame[c].iters <= k
                        /\ frame[c].pc = "done" =>
                              /\ frame[c].result = None
                              /\ frame[c].arm \in {"self", "cycle"}

C5_Witness ==
    /\ Returned("t1")
    /\ LET ps == profile_set[1]
           chain == ChainOf(ps, StartOf("t1"))
       IN  /\ CycleAt(ps, chain, 2)
           /\ chain[3] = chain[1]
    /\ frame["t1"].result = None
    /\ frame["t1"].arm = "cycle"

\* ------------------------------------------------------------------ C6
\* C6: a starting profile that defines the key decides the call in its first
\* iteration, whatever its source_profile is.
C6_DirectKeyWins ==
    \A c \in Threads :
        (Returned(c) /\ Defines(profile_set[1], StartOf(c))) =>
            /\ frame[c].result = ValueAt(profile_set[1], StartOf(c))
            /\ frame[c].iters = 1

C6_Witness ==
    /\ Returned("t1")
    /\ Defines(profile_set[1], StartOf("t1"))
    /\ Link(profile_set[1], StartOf("t1")) # None
    /\ Link(profile_set[1], StartOf("t1")) # Some(StartOf("t1"))
    /\ Defines(profile_set[1], Link(profile_set[1], StartOf("t1"))[1])
    /\ ValueAt(profile_set[1], Link(profile_set[1], StartOf("t1"))[1])
          # frame["t1"].result
    /\ frame["t1"].result = ValueAt(profile_set[1], StartOf("t1"))

\* ------------------------------------------------------------------ C7
\* C7: on an empty ProfileSet the call has returned None as soon as it was
\* made, with no lookup and no iteration, whatever the override.
C7_EmptyProfileSet ==
    \A c \in Threads :
        (Called(c) /\ IsEmpty(profile_set[1])) =>
            /\ frame[c].pc = "done"
            /\ frame[c].result = None
            /\ frame[c].lookups = 0
            /\ frame[c].iters = 0
            /\ visited_profiles[c] = <<>>

C7_Witness ==
    /\ Returned("t1")
    /\ IsEmpty(profile_set[1])
    /\ frame["t1"].profile_override # None
    /\ frame["t1"].result = None

\* ------------------------------------------------------------------ C8
\* C8: a failed load makes region() return None, as an empty set does, with
\* the resolver never called; a successful load makes it return what the
\* resolver returns for the loaded set and the builder's override.
C8_ProviderDowngrade ==
    frame["t1"].pc # "idle" =>
        IF Load(provider.fs) = Err
        THEN /\ frame["t1"].pc = "done"
             /\ frame["t1"].result = None
             /\ frame["t1"].calls = 0
             /\ frame["t1"].lookups = 0
             /\ profile_set = None
             /\ \A selected \in AllNames :
                   frame["t1"].result =
                       ResolveAlone(EmptyProfileSet(selected),
                                    provider.profile_override).result
        ELSE /\ profile_set = Some(Load(provider.fs)[2])
             /\ frame["t1"].calls = 1
             /\ frame["t1"].profile_override = provider.profile_override
             /\ frame["t1"].pc = "done" =>
                   frame["t1"].result =
                       ResolveAlone(Load(provider.fs)[2],
                                    provider.profile_override).result

C8_Witness ==
    /\ Load(provider.fs) = Err
    /\ provider.profile_override # None
    /\ frame["t1"].pc = "done"
    /\ frame["t1"].result = None

\* ------------------------------------------------------------------ C9
\* C9: under any interleaving of the calls, a call that has returned holds
\* the result and the iteration count of the same call run alone, and the
\* ProfileSet is the one the calls were given.
C9_ConcurrentCalls ==
    /\ profile_set = Some(Load(provider.fs)[2])
    /\ \A c \in Threads :
          frame[c].pc = "done" =>
              LET alone == ResolveAlone(profile_set[1], frame[c].profile_override)
              IN  /\ frame[c].result = alone.result
                  /\ frame[c].iters = alone.iters
                  /\ frame[c].arm = alone.arm

C9_Witness ==
    /\ frame["t1"].pc = "done"
    /\ frame["t1"].iters >= 2
    /\ frame["t1"].result # None
    /\ frame["t2"].pc = "loop"
    /\ frame["t2"].iters >= 1
    /\ \E i \in 1..Len(visited_profiles["t1"]) :
          Contains(visited_profiles["t2"], visited_profiles["t1"][i])

\* ------------------------------------------------------------------ C10
\* C10: the resolver without the self-reference arm returns the same result;
\* the code needs at most as many iterations, and at most one fewer.
C10_FastPathRedundant ==
    \A c \in Threads :
        Returned(c) =>
            LET variant == ResolveNoFastPath(profile_set[1], frame[c].profile_override)
            IN  /\ frame[c].result = variant.result
                /\ frame[c].iters <= variant.iters
                /\ variant.iters <= frame[c].iters + 1
                /\ frame[c].arm = "self" => variant.iters = frame[c].iters + 1

C10_Witness ==
    /\ Returned("t1")
    /\ frame["t1"].arm = "self"
    /\ frame["t1"].iters >= 2
    /\ ResolveNoFastPath(profile_set[1], frame["t1"].profile_override).arm = "cycle"

====
